---- MODULE Spec2Model ----
(***************************************************************************)
(* Crumb bread calculator: the calculation engine (utils/breadMath.ts),    *)
(* its constants (utils/constants.ts) and the recipe store                 *)
(* (store/useRecipeStore.ts).                                              *)
(*                                                                         *)
(* Number representation (JavaScript numbers are doubles; the model uses   *)
(* exact fixed-point integers):                                            *)
(*   temperatures        half degrees Celsius   (22 C  is 44)              *)
(*   fermentationSpeed   tenths                 (1.0   is 10)              *)
(*   yeast masses        tenths of a gram       (7.5 g is 75)              *)
(*   flour, water, salt  grams                                             *)
(*   hydration           percent                                           *)
(*   durations           minutes; timers in seconds; the clock in half s   *)
(*   hydration factor    thousandths            (1.15  is 1150)            *)
(*                                                                         *)
(* Roundings are taken on the exact value. Where the exact value lies on a *)
(* tie (x.5) a double may lie just under it, and Math.pow is tabulated to  *)
(* 10^-5, so a rounded mass or duration of the model can differ from the   *)
(* program's by one unit in the last place at such inputs. The water       *)
(* temperature, the proof time, the total time and the fold interval are   *)
(* computed from values that doubles hold exactly.                         *)
(***************************************************************************)
EXTENDS Integers, Sequences, FiniteSets, TLC

VARIABLES view, unit, inputs, output, steps, currentStepIndex,
          bakeStartTime, timerStates, hasActiveBake, now, call

vars == <<view, unit, inputs, output, steps, currentStepIndex,
          bakeStartTime, timerStates, hasActiveBake, now, call>>

storeVars == <<view, unit, inputs, output, steps, currentStepIndex,
               bakeStartTime, timerStates, hasActiveBake, now>>

(***************************************************************************)
(* utils/constants.ts                                                      *)
(***************************************************************************)
TARGET_DDT == 24
FRICTION_HAND == 2
FRICTION_MIXER == 12
\* ratios and hydrations of the preferments, in hundredths (0.30 is 30)
BIGA_FLOUR_RATIO == 30
BIGA_HYDRATION == 50
POOLISH_FLOUR_RATIO == 30
POOLISH_HYDRATION == 100
\* yeast percentages, in tenths of a percent (1.5 % is 15)
FRESH_YEAST_BASE == 15
BIGA_YEAST_PERCENT == 10
POOLISH_YEAST_PERCENT == 1
\* salt, in percent
SALT_PERCENT == 2
TEMP_COEFFICIENT == 8
FRIDGE_TEMP == 4
BASE_BULK_TIME == 120
BASE_PREFERMENT_TIME == 8 * 60
HIGH_HYDRATION_THRESHOLD == 75
HIGH_HYDRATION_FRICTION_REDUCTION == 2
\* in hundredths (0.10 is 10)
HIGH_HYDRATION_YEAST_REDUCTION == 10
HYDRATION_BASELINE == 65
\* in thousandths (0.015 is 15, 0.30 is 300)
HYDRATION_EFFECT_COEFFICIENT == 15
MAX_HYDRATION_EFFECT == 300
\* in hundredths (0.50 is 50)
PROOF_TO_BULK_RATIO == 50
MIN_PROOF_TIME == 30
MAX_PROOF_TIME == 120

STEP_DURATIONS ==
  [AUTOLYSE |-> 45, MIX_HAND |-> 15, MIX_MACHINE |-> 12, PRESHAPE_REST |-> 20,
   FINAL_SHAPE |-> 5, PREHEAT_OVERLAP |-> 0, BAKE_COVERED |-> 22,
   BAKE_UNCOVERED |-> 22, COOL |-> 60]

HYDRATION_CONFIG == [min |-> 60, max |-> 90, default |-> 70, step |-> 1]
\* in tenths
SPEED_CONFIG == [min |-> 5, max |-> 20, default |-> 10, step |-> 1]
\* in whole degrees, as in the source
TEMP_CONFIG == [min |-> 15, max |-> 35, default |-> 22, step |-> 1]
FLOUR_CONFIG == [min |-> 100, max |-> 2000, default |-> 500, step |-> 50]

(***************************************************************************)
(* types/index.ts                                                          *)
(***************************************************************************)
Method == {"DIRECT", "BIGA", "POOLISH"}
MixerType == {"HAND", "KITCHENAID"}
PrefermentStorage == {"FRIDGE", "ROOM"}
Unit == {"METRIC", "IMPERIAL"}

\* the JavaScript value undefined (an absent preferment)
undefined == [undefined |-> TRUE]

(***************************************************************************)
(* Arithmetic of the JavaScript runtime, on exact fractions                *)
(***************************************************************************)
Max(a, b) == IF a >= b THEN a ELSE b
Min(a, b) == IF a <= b THEN a ELSE b
Abs(a) == IF a < 0 THEN 0 - a ELSE a

\* Math.round(n / d) for d > 0: the nearest integer, a half rounds up
RoundDiv(n, d) == (2 * n + d) \div (2 * d)

\* whole degrees Celsius in the model's half degrees
Deg(c) == 2 * c

\* Math.log10, on the two yeast ratios the engine passes to it
Log10(x) == CASE x = 1 -> 0 [] x = 10 -> 1

\* 2^(j/16) for j = 0..15, in units of 10^-5
Pow2Frac ==
  <<100000, 104427, 109051, 113879, 118921, 124186, 129684, 135426,
    141421, 147683, 154221, 161049, 168179, 175625, 183401, 191521>>

\* Math.pow(2, -tempDiff / TEMP_COEFFICIENT) for tempDiff in half degrees,
\* as the fraction num / den (exact in the power of two, 10^-5 in the root)
Q10Factor(tempDiff) ==
  LET period == Deg(TEMP_COEFFICIENT)
      e == 0 - tempDiff
      k == e \div period
      j == e % period
  IN  [num |-> Pow2Frac[j + 1],
       den |-> IF k >= 0 THEN 100000 \div (2 ^ k) ELSE 100000 * (2 ^ (0 - k))]

(***************************************************************************)
(* utils/breadMath.ts: the scalar calculators                              *)
(***************************************************************************)
\* calculateFriction with the threshold taken inclusively (>= for >)
calculateFriction_Inclusive(mixer, hydration) ==
  LET baseFriction == IF mixer = "HAND" THEN FRICTION_HAND ELSE FRICTION_MIXER
  IN  IF hydration >= HIGH_HYDRATION_THRESHOLD
      THEN Deg(Max(0, baseFriction - HIGH_HYDRATION_FRICTION_REDUCTION))
      ELSE Deg(baseFriction)

\* friction in half degrees
calculateFriction(mixer, hydration) ==
  LET baseFriction == IF mixer = "HAND" THEN FRICTION_HAND ELSE FRICTION_MIXER
  IN  IF hydration > HIGH_HYDRATION_THRESHOLD
      THEN Deg(Max(0, baseFriction - HIGH_HYDRATION_FRICTION_REDUCTION))
      ELSE Deg(baseFriction)

\* calculateWaterTemp without its clamp
calculateWaterTemp_NoClamp(in) ==
  LET friction == calculateFriction(in.mixer, in.targetHydration)
      prefermentTemp ==
        IF in.prefermentStorage = "FRIDGE" THEN Deg(FRIDGE_TEMP) ELSE in.roomTemp
      waterTemp ==
        IF in.method = "DIRECT"
        THEN Deg(TARGET_DDT * 3) - in.roomTemp - in.roomTemp - friction
        ELSE Deg(TARGET_DDT * 4) - in.roomTemp - in.roomTemp - friction
               - prefermentTemp
  IN  Deg(RoundDiv(waterTemp, Deg(1)))

\* calculateWaterTemp with the flour's temperature left out of the rule
calculateWaterTemp_NoFlourTerm(in) ==
  LET friction == calculateFriction(in.mixer, in.targetHydration)
      prefermentTemp ==
        IF in.prefermentStorage = "FRIDGE" THEN Deg(FRIDGE_TEMP) ELSE in.roomTemp
      waterTemp ==
        IF in.method = "DIRECT"
        THEN Deg(TARGET_DDT * 3) - in.roomTemp - friction
        ELSE Deg(TARGET_DDT * 4) - in.roomTemp - friction - prefermentTemp
  IN  Deg(RoundDiv(Max(Deg(0), Min(Deg(40), waterTemp)), Deg(1)))

\* water temperature in half degrees: clamped into [0, 40] C, then rounded
\* to a whole degree
calculateWaterTemp(in) ==
  LET friction == calculateFriction(in.mixer, in.targetHydration)
      flourTemp == in.roomTemp
      prefermentTemp ==
        IF in.prefermentStorage = "FRIDGE" THEN Deg(FRIDGE_TEMP) ELSE in.roomTemp
      waterTemp ==
        IF in.method = "DIRECT"
        THEN Deg(TARGET_DDT * 3) - in.roomTemp - flourTemp - friction
        ELSE Deg(TARGET_DDT * 4) - in.roomTemp - flourTemp - friction
               - prefermentTemp
  IN  Deg(RoundDiv(Max(Deg(0), Min(Deg(40), waterTemp)), Deg(1)))

\* calculateYeast with the threshold taken inclusively (>= for >)
calculateYeast_Inclusive(totalFlour, fermentationSpeed, hydration) ==
  LET yeastPercentNum ==
        FRESH_YEAST_BASE * fermentationSpeed *
          (IF hydration >= HIGH_HYDRATION_THRESHOLD
           THEN 100 - HIGH_HYDRATION_YEAST_REDUCTION ELSE 100)
  IN  RoundDiv(totalFlour * yeastPercentNum, 100000)

\* yeast in tenths of a gram, rounded to one decimal
calculateYeast(totalFlour, fermentationSpeed, hydration) ==
  LET \* yeastPercent = base * speed [* (1 - reduction)], as
      \* yeastPercentNum / 10^4 percent
      yeastPercentNum ==
        FRESH_YEAST_BASE * fermentationSpeed *
          (IF hydration > HIGH_HYDRATION_THRESHOLD
           THEN 100 - HIGH_HYDRATION_YEAST_REDUCTION ELSE 100)
  IN  RoundDiv(totalFlour * yeastPercentNum, 100000)

\* calculatePreferment taking every method but BIGA for DIRECT
calculatePreferment_BigaOnly(method, totalFlour) ==
  IF method # "BIGA" THEN undefined
  ELSE
    LET prefermentFlour == RoundDiv(totalFlour * BIGA_FLOUR_RATIO, 100)
    IN  [flour |-> prefermentFlour,
         water |-> RoundDiv(prefermentFlour * BIGA_HYDRATION, 100),
         yeast |-> RoundDiv(prefermentFlour * BIGA_YEAST_PERCENT, 100)]

\* calculatePreferment taking the preferment's water from the total flour
calculatePreferment_WaterOfTotal(method, totalFlour) ==
  IF method = "DIRECT" THEN undefined
  ELSE
    LET hydration ==
          IF method = "BIGA" THEN BIGA_HYDRATION ELSE POOLISH_HYDRATION
        yeastPercent ==
          IF method = "BIGA" THEN BIGA_YEAST_PERCENT ELSE POOLISH_YEAST_PERCENT
        prefermentFlour == RoundDiv(totalFlour * BIGA_FLOUR_RATIO, 100)
    IN  [flour |-> prefermentFlour,
         water |-> RoundDiv(totalFlour * hydration, 100),
         yeast |-> RoundDiv(prefermentFlour * yeastPercent, 100)]

\* calculatePreferment rounding the preferment's flour down
calculatePreferment_FlourFloor(method, totalFlour) ==
  IF method = "DIRECT" THEN undefined
  ELSE
    LET hydration ==
          IF method = "BIGA" THEN BIGA_HYDRATION ELSE POOLISH_HYDRATION
        yeastPercent ==
          IF method = "BIGA" THEN BIGA_YEAST_PERCENT ELSE POOLISH_YEAST_PERCENT
        prefermentFlour == (totalFlour * BIGA_FLOUR_RATIO) \div 100
    IN  [flour |-> prefermentFlour,
         water |-> RoundDiv(prefermentFlour * hydration, 100),
         yeast |-> RoundDiv(prefermentFlour * yeastPercent, 100)]

calculatePreferment(method, totalFlour) ==
  IF method = "DIRECT" THEN undefined
  ELSE
    LET flourRatio ==
          IF method = "BIGA" THEN BIGA_FLOUR_RATIO ELSE POOLISH_FLOUR_RATIO
        hydration ==
          IF method = "BIGA" THEN BIGA_HYDRATION ELSE POOLISH_HYDRATION
        yeastPercent ==
          IF method = "BIGA" THEN BIGA_YEAST_PERCENT ELSE POOLISH_YEAST_PERCENT
        prefermentFlour == RoundDiv(totalFlour * flourRatio, 100)
        prefermentWater == RoundDiv(prefermentFlour * hydration, 100)
        \* grams * 10 = flour * (yeastPercent / 10) / 100 * 10
        prefermentYeast == RoundDiv(prefermentFlour * yeastPercent, 100)
    IN  [flour |-> prefermentFlour, water |-> prefermentWater,
         yeast |-> prefermentYeast]

\* calculateHydrationFactor without its two caps
calculateHydrationFactor_Uncapped(hydration) ==
  LET hydrationDiff == hydration - HYDRATION_BASELINE
  IN  IF hydrationDiff <= 0
      THEN 1000 + Abs(hydrationDiff) * 10
      ELSE 1000 - hydrationDiff * HYDRATION_EFFECT_COEFFICIENT

\* the factor in thousandths
calculateHydrationFactor(hydration) ==
  LET hydrationDiff == hydration - HYDRATION_BASELINE
  IN  IF hydrationDiff <= 0
      THEN 1000 + Min(150, Abs(hydrationDiff) * 10)
      ELSE 1000 - Min(MAX_HYDRATION_EFFECT,
                      hydrationDiff * HYDRATION_EFFECT_COEFFICIENT)

\* calculateBulkTime with an upper bound of twelve times the base time
calculateBulkTime_Capped(roomTemp, fermentationSpeed, hydration) ==
  LET tempFactor == Q10Factor(roomTemp - Deg(TARGET_DDT))
      hydrationFactor == calculateHydrationFactor(hydration)
  IN  Min(12 * BASE_BULK_TIME,
          RoundDiv((BASE_BULK_TIME \div 20) * (hydrationFactor \div 5)
                     * tempFactor.num,
                   fermentationSpeed * tempFactor.den))

\* minutes: round(BASE_BULK_TIME * tempFactor * hydrationFactor * speedFactor)
calculateBulkTime(roomTemp, fermentationSpeed, hydration) ==
  LET tempDiff == roomTemp - Deg(TARGET_DDT)
      tempFactor == Q10Factor(tempDiff)
      hydrationFactor == calculateHydrationFactor(hydration)
      \* BASE * (hf / 1000) * (10 / speed) = (BASE \div 20) * (hf \div 5) / speed:
      \* BASE is a multiple of 20 and every hydration factor one of 5
  IN  RoundDiv((BASE_BULK_TIME \div 20) * (hydrationFactor \div 5) * tempFactor.num,
               fermentationSpeed * tempFactor.den)

\* calculateProofTime without its clamp
calculateProofTime_NoClamp(bulkTime) ==
  RoundDiv(bulkTime * PROOF_TO_BULK_RATIO, 100)

\* calculateProofTime rounding down (Math.floor for Math.round)
calculateProofTime_RoundsDown(bulkTime) ==
  LET proofTime == (bulkTime * PROOF_TO_BULK_RATIO) \div 100
  IN  Max(MIN_PROOF_TIME, Min(MAX_PROOF_TIME, proofTime))

\* final proof time in minutes
calculateProofTime(bulkTime) ==
  LET proofTime == RoundDiv(bulkTime * PROOF_TO_BULK_RATIO, 100)
  IN  Max(MIN_PROOF_TIME, Min(MAX_PROOF_TIME, proofTime))

\* calculatePrefermentTime without the cap on fridge storage
calculatePrefermentTime_NoFridgeCap(method, roomTemp, prefermentStorage) ==
  LET storageTemp ==
        IF prefermentStorage = "FRIDGE" THEN Deg(FRIDGE_TEMP) ELSE roomTemp
      tempFactor == Q10Factor(storageTemp - Deg(TARGET_DDT))
      yeastFactor2 == IF method = "BIGA" THEN 2 ELSE 3
  IN  RoundDiv(BASE_PREFERMENT_TIME * yeastFactor2 * tempFactor.num,
               2 * tempFactor.den)

\* calculatePrefermentTime with the fridge caps at twice their length
calculatePrefermentTime_LongerCaps(method, roomTemp, prefermentStorage) ==
  LET storageTemp ==
        IF prefermentStorage = "FRIDGE" THEN Deg(FRIDGE_TEMP) ELSE roomTemp
      tempFactor == Q10Factor(storageTemp - Deg(TARGET_DDT))
      yeastFactor2 == IF method = "BIGA" THEN 2 ELSE 3
      num == BASE_PREFERMENT_TIME * yeastFactor2 * tempFactor.num
      den == 2 * tempFactor.den
      maxFridgeTime == IF method = "BIGA" THEN 32 * 60 ELSE 48 * 60
  IN  IF prefermentStorage = "FRIDGE" /\ maxFridgeTime * den < num
      THEN maxFridgeTime
      ELSE RoundDiv(num, den)

\* calculatePrefermentTime taking the yeast factor of the biga for the poolish
calculatePrefermentTime_YeastFactorOne(method, roomTemp, prefermentStorage) ==
  LET storageTemp ==
        IF prefermentStorage = "FRIDGE" THEN Deg(FRIDGE_TEMP) ELSE roomTemp
      tempFactor == Q10Factor(storageTemp - Deg(TARGET_DDT))
      num == BASE_PREFERMENT_TIME * tempFactor.num
      den == tempFactor.den
      maxFridgeTime == IF method = "BIGA" THEN 16 * 60 ELSE 24 * 60
  IN  IF prefermentStorage = "FRIDGE" /\ maxFridgeTime * den < num
      THEN maxFridgeTime
      ELSE RoundDiv(num, den)

\* preferment time in minutes
calculatePrefermentTime(method, roomTemp, prefermentStorage) ==
  LET storageTemp ==
        IF prefermentStorage = "FRIDGE" THEN Deg(FRIDGE_TEMP) ELSE roomTemp
      tempDiff == storageTemp - Deg(TARGET_DDT)
      tempFactor == Q10Factor(tempDiff)
      yeastPercent ==
        IF method = "BIGA" THEN BIGA_YEAST_PERCENT ELSE POOLISH_YEAST_PERCENT
      yeastRatio == BIGA_YEAST_PERCENT \div yeastPercent
      \* yeastFactor = 1 + log10(yeastRatio) * 0.5, in halves
      yeastFactor2 == 2 + Log10(yeastRatio)
      \* prefermentTime = num / den
      num == BASE_PREFERMENT_TIME * yeastFactor2 * tempFactor.num
      den == 2 * tempFactor.den
      maxFridgeTime == IF method = "BIGA" THEN 16 * 60 ELSE 24 * 60
  IN  IF prefermentStorage = "FRIDGE" /\ maxFridgeTime * den < num
      THEN maxFridgeTime
      ELSE RoundDiv(num, den)

\* calculateTotalTime adding the preferment time whatever the method
calculateTotalTime_AlwaysPreferment(bulkTime, proofTime, prefermentTime, mixer, isHighHydration, isIndirect) ==
  prefermentTime
  + (IF isHighHydration THEN STEP_DURATIONS.AUTOLYSE ELSE 0)
  + (IF mixer = "HAND" THEN STEP_DURATIONS.MIX_HAND
                       ELSE STEP_DURATIONS.MIX_MACHINE)
  + bulkTime
  + STEP_DURATIONS.PRESHAPE_REST
  + STEP_DURATIONS.FINAL_SHAPE
  + proofTime
  + STEP_DURATIONS.BAKE_COVERED
  + STEP_DURATIONS.BAKE_UNCOVERED
  + STEP_DURATIONS.COOL

\* total time in minutes
calculateTotalTime(bulkTime, proofTime, prefermentTime, mixer, isHighHydration, isIndirect) ==
  (IF isIndirect THEN prefermentTime ELSE 0)
  + (IF isHighHydration THEN STEP_DURATIONS.AUTOLYSE ELSE 0)
  + (IF mixer = "HAND" THEN STEP_DURATIONS.MIX_HAND
                       ELSE STEP_DURATIONS.MIX_MACHINE)
  + bulkTime
  + STEP_DURATIONS.PRESHAPE_REST
  + STEP_DURATIONS.FINAL_SHAPE
  + proofTime
  + STEP_DURATIONS.BAKE_COVERED
  + STEP_DURATIONS.BAKE_UNCOVERED
  + STEP_DURATIONS.COOL

(***************************************************************************)
(* utils/breadMath.ts: the recipe aggregator                               *)
(***************************************************************************)
\* FinalDoughOf forgetting to take the preferment's flour off the total
FinalDoughOf_KeepsFlour(totalFlour, waterTotal, salt, totalYeast, preferment) ==
  IF preferment # undefined
  THEN [flour |-> totalFlour, water |-> waterTotal - preferment.water,
        salt |-> salt,
        yeast |-> Max(0, RoundDiv(totalYeast - preferment.yeast, 1))]
  ELSE [flour |-> totalFlour, water |-> waterTotal, salt |-> salt,
        yeast |-> totalYeast]

\* the final dough of calculateRecipe: the totals less the preferment
FinalDoughOf(totalFlour, waterTotal, salt, totalYeast, preferment) ==
  IF preferment # undefined
  THEN LET remainingFlour == totalFlour - preferment.flour
           remainingWater == waterTotal - preferment.water
           \* Math.max(0, Math.round((totalYeast - preferment.yeast) * 10) / 10)
           kickYeast == Max(0, RoundDiv(totalYeast - preferment.yeast, 1))
       IN  [flour |-> remainingFlour, water |-> remainingWater, salt |-> salt,
            yeast |-> kickYeast]
  ELSE [flour |-> totalFlour, water |-> waterTotal, salt |-> salt,
        yeast |-> totalYeast]

calculateRecipe(in) ==
  LET waterTotal == RoundDiv(in.totalFlour * in.targetHydration, 100)
      salt == RoundDiv(in.totalFlour * SALT_PERCENT, 100)
      totalYeast ==
        calculateYeast(in.totalFlour, in.fermentationSpeed, in.targetHydration)
      preferment == calculatePreferment(in.method, in.totalFlour)
      finalDough ==
        FinalDoughOf(in.totalFlour, waterTotal, salt, totalYeast, preferment)
      calculatedWaterTemp == calculateWaterTemp(in)
      estimatedBulkTime ==
        calculateBulkTime(in.roomTemp, in.fermentationSpeed, in.targetHydration)
      estimatedProofTime == calculateProofTime(estimatedBulkTime)
      indirect == in.method # "DIRECT"
      prefermentTime ==
        IF indirect
        THEN calculatePrefermentTime(in.method, in.roomTemp, in.prefermentStorage)
        ELSE 0
      highHydration == in.targetHydration > HIGH_HYDRATION_THRESHOLD
      totalTime ==
        calculateTotalTime(estimatedBulkTime, estimatedProofTime, prefermentTime,
                           in.mixer, highHydration, indirect)
  IN  [flourTotal |-> in.totalFlour,
       waterTotal |-> waterTotal,
       salt |-> salt,
       yeast |-> totalYeast,
       preferment |-> preferment,
       finalDough |-> finalDough,
       calculatedWaterTemp |-> calculatedWaterTemp,
       estimatedBulkTime |-> estimatedBulkTime,
       estimatedProofTime |-> estimatedProofTime,
       prefermentTime |-> prefermentTime,
       totalTime |-> totalTime]

(***************************************************************************)
(* utils/breadMath.ts: the step generator                                  *)
(***************************************************************************)
\* a number of grams or minutes in a template literal
Str(n) == ToString(n)

\* a yeast mass (tenths of a gram) in a template literal: 75 is "7.5", 60 is "6"
StrTenths(n) ==
  IF n % 10 = 0 THEN ToString(n \div 10)
  ELSE ToString(n \div 10) \o "." \o ToString(n % 10)

\* a water temperature (half degrees, always whole after rounding)
StrTemp(t) == ToString(t \div 2)

\* the builder of generateSteps: the list so far and the stepId counter
\* the step counter kept outside generateSteps, so that a call goes on
\* counting where the call before it stopped
NoSteps_SharedCounter ==
  [steps |-> <<>>,
   stepId |-> IF "steps" \in DOMAIN call THEN Len(call.steps) + 1 ELSE 1]

NoSteps == [steps |-> <<>>, stepId |-> 1]

\* addStep; duration is <<>> when the argument is left out, <<d>> otherwise,
\* and a step without a duration has no duration field
\* addStep dropping the duration it is given
addStep_NoDuration(b, title, description, category, critical, duration) ==
  [steps |-> Append(b.steps,
                    [id |-> "step-" \o ToString(b.stepId), time |-> "",
                     title |-> title, description |-> description,
                     critical |-> critical, category |-> category]),
   stepId |-> b.stepId + 1]

\* addStep taking the id after the increment (++stepId for stepId++)
addStep_PreIncrement(b, title, description, category, critical, duration) ==
  LET step == [id |-> "step-" \o ToString(b.stepId + 1),
               time |-> "",
               title |-> title,
               description |-> description,
               critical |-> critical,
               category |-> category]
  IN  [steps |-> Append(b.steps,
                        IF duration = <<>> THEN step
                        ELSE step @@ [duration |-> duration[1]]),
       stepId |-> b.stepId + 1]

addStep(b, title, description, category, critical, duration) ==
  LET step == [id |-> "step-" \o ToString(b.stepId),
               time |-> "",
               title |-> title,
               description |-> description,
               critical |-> critical,
               category |-> category]
  IN  [steps |-> Append(b.steps,
                        IF duration = <<>> THEN step
                        ELSE step @@ [duration |-> duration[1]]),
       stepId |-> b.stepId + 1]

\* for (let i = from; i <= foldCount; i++) addStep(`Coil Fold ${i}`, ...)
RECURSIVE CoilFolds(_, _, _, _)
CoilFolds(b, i, foldCount, foldInterval) ==
  IF i > foldCount THEN b
  ELSE CoilFolds(
         addStep(b, "Coil Fold " \o ToString(i),
                 "Gently lift dough from center, letting edges fold underneath. Rotate 90 deg and repeat. Cover and rest.",
                 "bulk", i = 1, <<foldInterval>>),
         i + 1, foldCount, foldInterval)

\* isHighHydration with the threshold taken inclusively (>= for >)
isHighHydration_Inclusive(in) == in.targetHydration >= HIGH_HYDRATION_THRESHOLD

\* the two flags generateSteps computes from its inputs
isHighHydration(in) == in.targetHydration > HIGH_HYDRATION_THRESHOLD

\* isIndirect recognising only one of the two indirect methods
isIndirect_BigaOnly(in) == in.method = "BIGA"

isIndirect(in) == in.method # "DIRECT"

PrefermentPhase(b, in, out) ==
  LET prefermentName == IF in.method = "BIGA" THEN "Biga" ELSE "Poolish"
      prefermentHydration == IF in.method = "BIGA" THEN "50%" ELSE "100%"
  IN  IF isIndirect(in) /\ out.preferment # undefined
      THEN addStep(b, "Prepare " \o prefermentName,
                   "Mix " \o Str(out.preferment.flour) \o "g flour with "
                     \o Str(out.preferment.water) \o "g water ("
                     \o prefermentHydration \o " hydration) and "
                     \o StrTenths(out.preferment.yeast)
                     \o "g yeast. Cover and let ferment for 8-16 hours.",
                   "prep", TRUE, <<>>)
      ELSE b

MixingPhase(b, in, out) ==
  IF isHighHydration(in)
      THEN
        LET b1 == addStep(b, "Autolyse",
                     "Mix " \o Str(out.finalDough.flour) \o "g flour with "
                       \o Str(RoundDiv(out.finalDough.water * 9, 10))
                       \o "g water (reserve 10% for bassinage). Let rest for 30-60 minutes.",
                     "mix", FALSE, <<45>>)
            b2 == addStep(b1, "Add Salt & Yeast",
                     "Sprinkle " \o Str(out.finalDough.salt) \o "g salt and "
                       \o StrTenths(out.finalDough.yeast)
                       \o "g yeast over the dough. Pinch and fold to incorporate.",
                     "mix", FALSE, <<>>)
        IN  addStep(b2, "Bassinage",
                    "Gradually incorporate the reserved "
                      \o Str(RoundDiv(out.finalDough.water, 10))
                      \o "g water using the slap and fold technique.",
                    "mix", TRUE, <<>>)
      ELSE
        LET b1 ==
              IF isIndirect(in)
              THEN addStep(b, "Combine Final Dough",
                     "Add the mature "
                       \o (IF in.method = "BIGA" THEN "Biga" ELSE "Poolish")
                       \o " to " \o Str(out.finalDough.flour) \o "g flour. Mix in "
                       \o Str(out.finalDough.water) \o "g water at "
                       \o StrTemp(out.calculatedWaterTemp) \o " C.",
                     "mix", FALSE, <<>>)
              ELSE addStep(b, "Mix Ingredients",
                     "Combine " \o Str(out.flourTotal) \o "g flour with "
                       \o Str(out.waterTotal) \o "g water at "
                       \o StrTemp(out.calculatedWaterTemp) \o " C. Add "
                       \o Str(out.salt) \o "g salt and "
                       \o StrTenths(out.yeast) \o "g yeast.",
                     "mix", FALSE, <<>>)
        IN  IF in.mixer = "KITCHENAID"
            THEN addStep(b1, "Machine Knead",
                   "Mix on low speed (1-2) for 3 minutes to combine. Increase to medium (4) and knead for 8-10 minutes until smooth and elastic.",
                   "mix", FALSE, <<12>>)
            ELSE addStep(b1, "Hand Knead",
                   "Turn out onto a clean surface. Knead using stretch and fold technique for 10-15 minutes until the dough passes the windowpane test.",
                   "mix", FALSE, <<15>>)

BulkPhase(b, in, out) ==
  LET bulkTime == out.estimatedBulkTime
  IN  IF isHighHydration(in)
      THEN
        LET foldCount == 4
            foldInterval == RoundDiv(bulkTime, foldCount + 1)
            b1 == addStep(b, "Begin Bulk Fermentation",
                     "Place dough in a lightly oiled container. Cover and rest at room temperature.",
                     "bulk", FALSE, <<>>)
            b2 == CoilFolds(b1, 1, foldCount, foldInterval)
        IN  addStep(b2, "Complete Bulk Fermentation",
                    "Let dough rest undisturbed until increased by 50-75%. Look for bubbles and a domed surface.",
                    "bulk", TRUE, <<foldInterval>>)
      ELSE
        LET b1 == addStep(b, "Bulk Fermentation",
                     "Cover dough and let rise at room temperature for approximately "
                       \o Str(bulkTime) \o " minutes until doubled in size.",
                     "bulk", TRUE, <<bulkTime>>)
        IN  addStep(b1, "Stretch & Fold (Optional)",
                    "Perform one set of stretch and folds halfway through bulk if desired for additional strength.",
                    "bulk", FALSE, <<>>)

ShapeProofBakePhase(b, out) ==
  LET b1 == addStep(b, "Pre-shape",
               "Gently turn dough onto a lightly floured surface. Pre-shape into a round using a bench scraper. Rest 15-20 minutes.",
               "shape", FALSE, <<20>>)
      b2 == addStep(b1, "Final Shape",
               "Shape into your desired form (boule, batard, or loaf). Create surface tension by pulling dough towards you.",
               "shape", TRUE, <<>>)
      b3 == addStep(b2, "Final Proof",
               "Place shaped dough in a banneton or loaf pan. Proof at room temperature for approximately "
                 \o Str(out.estimatedProofTime)
                 \o " minutes. Watch for 50-75% size increase.",
               "proof", FALSE, <<out.estimatedProofTime>>)
      b4 == addStep(b3, "Preheat Oven",
               "Preheat oven to 250 C (480 F) with a Dutch oven or baking stone inside for at least 45 minutes.",
               "proof", TRUE, <<45>>)
      b5 == addStep(b4, "Score & Load",
               "Score the top of your loaf with a sharp blade or lame. Carefully transfer to the preheated Dutch oven or stone.",
               "bake", TRUE, <<>>)
      b6 == addStep(b5, "Bake (Covered)",
               "Bake covered at 250 C for 20-25 minutes to create steam for oven spring.",
               "bake", FALSE, <<22>>)
      b7 == addStep(b6, "Bake (Uncovered)",
               "Remove lid and reduce temp to 230 C (445 F). Bake for 20-25 more minutes until deep golden brown.",
               "bake", FALSE, <<22>>)
  IN  addStep(b7, "Cool",
              "Remove from oven and let cool on a wire rack for at least 1 hour before slicing. Listen for the singing crust!",
              "bake", TRUE, <<60>>)

generateSteps(in, out) ==
  ShapeProofBakePhase(
    BulkPhase(MixingPhase(PrefermentPhase(NoSteps, in, out), in, out), in, out),
    out).steps

(***************************************************************************)
(* store/useRecipeStore.ts: the recipe store                               *)
(***************************************************************************)
\* the JavaScript value null
null == [null |-> TRUE]

DEFAULT_INPUTS ==
  [method |-> "DIRECT",
   totalFlour |-> FLOUR_CONFIG.default,
   targetHydration |-> HYDRATION_CONFIG.default,
   mixer |-> "HAND",
   roomTemp |-> Deg(TEMP_CONFIG.default),
   fermentationSpeed |-> SPEED_CONFIG.default,
   prefermentStorage |-> "ROOM"]

\* bounds of the store's exploration: the clicks on the flour stepper and on
\* the temperature stepper, the positions of the two sliders
MaxFlourClicks == 1
MaxHydrationSlide == 1
MaxTempClicks == 1
MaxSpeedSlide == 1
\* the hydration slider is dragged HydrationSlideStep percent at a time
HydrationSlideStep == 6
\* the wall clock (Date.now()) runs in half seconds: at most MaxNow of them in
\* a row, and at most one wait of LongWait half seconds
MaxNow == 2
LongWait == 2000
\* the timer buttons are used on the cards of the steps up to MaxTimerStep
MaxTimerStep == 1

\* the values the calculator view passes to setInputs
StoreFlours ==
  {f \in {FLOUR_CONFIG.default + FLOUR_CONFIG.step * k : k \in 0..MaxFlourClicks} :
     f >= FLOUR_CONFIG.min /\ f <= FLOUR_CONFIG.max}
StoreHydrations ==
  {h \in {HYDRATION_CONFIG.default + HydrationSlideStep * k :
            k \in 0..MaxHydrationSlide} :
     h >= HYDRATION_CONFIG.min /\ h <= HYDRATION_CONFIG.max}
StoreSpeeds ==
  {v \in {SPEED_CONFIG.default + SPEED_CONFIG.step * k : k \in 0..MaxSpeedSlide} :
     v >= SPEED_CONFIG.min /\ v <= SPEED_CONFIG.max}

\* step.duration is truthy: the step has a duration and it is not 0
HasDuration(step) == "duration" \in DOMAIN step /\ step.duration # 0

\* the timer states startBake creates
InitialTimerStates(ss, t) ==
  LET timed == {i \in 1..Len(ss) : HasDuration(ss[i])}
      byId(id) == CHOOSE i \in timed : ss[i].id = id
  IN  [id \in {ss[i].id : i \in timed} |->
         [stepId |-> id,
          remainingSeconds |-> ss[byId(id)].duration * 60,
          isRunning |-> FALSE,
          lastUpdated |-> t]]

Init ==
  /\ call = [fn |-> "idle"]
  /\ view = "calculator"
  /\ unit = "METRIC"
  /\ inputs = DEFAULT_INPUTS
  \* the module calls calculateRecipe() once the store is created
  /\ output = calculateRecipe(DEFAULT_INPUTS)
  /\ steps = generateSteps(DEFAULT_INPUTS, calculateRecipe(DEFAULT_INPUTS))
  /\ currentStepIndex = 0
  /\ bakeStartTime = null
  /\ timerStates = <<>>
  /\ hasActiveBake = FALSE
  /\ now = 0

setView(v) ==
  /\ view' = v
  /\ UNCHANGED <<unit, inputs, output, steps, currentStepIndex, bakeStartTime,
                 timerStates, hasActiveBake, now>>

setUnit(u) ==
  /\ unit' = u
  /\ UNCHANGED <<view, inputs, output, steps, currentStepIndex, bakeStartTime,
                 timerStates, hasActiveBake, now>>

\* setInputs without the recalculation it ends with
setInputs_NoRecalculation(newInputs) ==
  LET updatedInputs ==
        [k \in DOMAIN inputs |->
           IF k \in DOMAIN newInputs THEN newInputs[k] ELSE inputs[k]]
  IN  /\ inputs' = updatedInputs
      /\ UNCHANGED <<view, unit, output, steps, currentStepIndex, bakeStartTime,
                     timerStates, hasActiveBake, now>>

\* setInputs(newInputs), with the recalculation it ends with
setInputs(newInputs) ==
  LET updatedInputs ==
        [k \in DOMAIN inputs |->
           IF k \in DOMAIN newInputs THEN newInputs[k] ELSE inputs[k]]
      newOutput == calculateRecipe(updatedInputs)
  IN  /\ inputs' = updatedInputs
      /\ output' = newOutput
      /\ steps' = generateSteps(updatedInputs, newOutput)
      /\ UNCHANGED <<view, unit, currentStepIndex, bakeStartTime, timerStates,
                     hasActiveBake, now>>

\* the partial inputs the controls of the calculator view produce
SetMethod == \E m \in Method : setInputs([method |-> m])
SetTotalFlour == \E f \in StoreFlours : setInputs([totalFlour |-> f])
SetTargetHydration == \E h \in StoreHydrations : setInputs([targetHydration |-> h])
SetRoomTempDown ==
  /\ inputs.roomTemp > Deg(TEMP_CONFIG.default)
  /\ setInputs([roomTemp |->
       Max(Deg(TEMP_CONFIG.min), inputs.roomTemp - Deg(TEMP_CONFIG.step))])
SetRoomTempUp ==
  /\ inputs.roomTemp < Deg(TEMP_CONFIG.default + MaxTempClicks)
  /\ setInputs([roomTemp |->
       Min(Deg(TEMP_CONFIG.max), inputs.roomTemp + Deg(TEMP_CONFIG.step))])
SetMixer == \E m \in MixerType : setInputs([mixer |-> m])
SetFermentationSpeed == \E v \in StoreSpeeds : setInputs([fermentationSpeed |-> v])
SetPrefermentStorage ==
  \E p \in PrefermentStorage : setInputs([prefermentStorage |-> p])

\* the store's calculateRecipe action
CalculateRecipe ==
  /\ output' = calculateRecipe(inputs)
  /\ steps' = generateSteps(inputs, calculateRecipe(inputs))
  /\ UNCHANGED <<view, unit, inputs, currentStepIndex, bakeStartTime,
                 timerStates, hasActiveBake, now>>

startBake ==
  LET newOutput == calculateRecipe(inputs)
      newSteps == generateSteps(inputs, newOutput)
  IN  /\ view' = "process"
      /\ output' = newOutput
      /\ steps' = newSteps
      /\ currentStepIndex' = 0
      /\ bakeStartTime' = [time |-> now]
      /\ timerStates' = InitialTimerStates(newSteps, now)
      /\ hasActiveBake' = TRUE
      /\ UNCHANGED <<unit, inputs, now>>

\* resumeBake without the floor at 0 (no Math.max)
resumeBake_NoFloor ==
  /\ timerStates' =
       [id \in DOMAIN timerStates |->
          LET state == timerStates[id]
              elapsedSeconds == (now - state.lastUpdated) \div 2
          IN  IF state.isRunning
              THEN [state EXCEPT
                      !.remainingSeconds = state.remainingSeconds - elapsedSeconds,
                      !.lastUpdated = now]
              ELSE state]
  /\ view' = "process"
  /\ UNCHANGED <<unit, inputs, output, steps, currentStepIndex, bakeStartTime,
                 hasActiveBake, now>>

resumeBake ==
  /\ timerStates' =
       [id \in DOMAIN timerStates |->
          LET state == timerStates[id]
              \* Math.floor((now - state.lastUpdated) / 1000)
              elapsedSeconds == (now - state.lastUpdated) \div 2
              newRemaining == Max(0, state.remainingSeconds - elapsedSeconds)
          IN  IF state.isRunning
              THEN [state EXCEPT !.remainingSeconds = newRemaining,
                                 !.lastUpdated = now]
              ELSE state]
  /\ view' = "process"
  /\ UNCHANGED <<unit, inputs, output, steps, currentStepIndex, bakeStartTime,
                 hasActiveBake, now>>

completeStep ==
  /\ IF currentStepIndex < Len(steps) - 1
     THEN /\ currentStepIndex' = currentStepIndex + 1
          /\ UNCHANGED hasActiveBake
     ELSE /\ hasActiveBake' = FALSE
          /\ UNCHANGED currentStepIndex
  /\ UNCHANGED <<view, unit, inputs, output, steps, bakeStartTime, timerStates,
                 now>>

\* resetBake without its timerStates: {}
resetBake_KeepsTimers ==
  /\ view' = "calculator"
  /\ currentStepIndex' = 0
  /\ bakeStartTime' = null
  /\ hasActiveBake' = FALSE
  /\ UNCHANGED <<unit, inputs, output, steps, timerStates, now>>

resetBake ==
  /\ view' = "calculator"
  /\ currentStepIndex' = 0
  /\ bakeStartTime' = null
  /\ timerStates' = <<>>
  /\ hasActiveBake' = FALSE
  /\ UNCHANGED <<unit, inputs, output, steps, now>>

pauseBake ==
  /\ view' = "calculator"
  /\ UNCHANGED <<unit, inputs, output, steps, currentStepIndex, bakeStartTime,
                 timerStates, hasActiveBake, now>>

\* updateTimerState(stepId, state): state is a partial TimerState
updateTimerState(stepId, state) ==
  /\ IF stepId \in DOMAIN timerStates
     THEN timerStates' =
            [timerStates EXCEPT ![stepId] =
               [k \in DOMAIN timerStates[stepId] |->
                  IF k = "lastUpdated" THEN now
                  ELSE IF k \in DOMAIN state THEN state[k]
                  ELSE timerStates[stepId][k]]]
     ELSE UNCHANGED timerStates
  /\ UNCHANGED <<view, unit, inputs, output, steps, currentStepIndex,
                 bakeStartTime, hasActiveBake, now>>

\* what the persist middleware writes to the storage on every change
partialize ==
  [unit |-> unit, inputs |-> inputs, view |-> view, steps |-> steps,
   currentStepIndex |-> currentStepIndex, bakeStartTime |-> bakeStartTime,
   timerStates |-> timerStates, hasActiveBake |-> hasActiveBake,
   output |-> output]

\* d half seconds may pass
CanPass(d) ==
  IF d < LongWait THEN (now % LongWait) + d <= MaxNow ELSE now < LongWait

\* the times the clock moves by in one go
ClockSteps == {1, LongWait}

\* the app is closed and, d half seconds later, opened again: the store is
\* created anew from the persisted state (onRehydrateStorage turns the stored
\* bakeStartTime into a Date again), then the module calls calculateRecipe()
rehydrate ==
  \E d \in {0} \cup ClockSteps :
    LET persisted == partialize
    IN  /\ d = 0 \/ CanPass(d)
        /\ now' = now + d
        /\ unit' = persisted.unit
        /\ inputs' = persisted.inputs
        /\ view' = persisted.view
        /\ currentStepIndex' = persisted.currentStepIndex
        /\ bakeStartTime' = persisted.bakeStartTime
        /\ timerStates' = persisted.timerStates
        /\ hasActiveBake' = persisted.hasActiveBake
        /\ output' = calculateRecipe(persisted.inputs)
        /\ steps' = generateSteps(persisted.inputs,
                                  calculateRecipe(persisted.inputs))

(***************************************************************************)
(* components/StepCard.tsx: the timer of a step card, mounted while the    *)
(* process view shows                                                      *)
(***************************************************************************)
timerSeconds(step) ==
  IF step.id \in DOMAIN timerStates THEN timerStates[step.id].remainingSeconds
  ELSE IF HasDuration(step) THEN step.duration * 60 ELSE 0

isTimerRunning(step) ==
  IF step.id \in DOMAIN timerStates THEN timerStates[step.id].isRunning
  ELSE FALSE

\* the countdown effect without its timerSeconds > 0 condition
TimerTick_PastZero ==
  \E i \in 1..Len(steps) :
    /\ view = "process"
    /\ isTimerRunning(steps[i])
    /\ now - timerStates[steps[i].id].lastUpdated >= 2
    /\ updateTimerState(steps[i].id,
                        [remainingSeconds |-> timerSeconds(steps[i]) - 1])

\* the interval of the countdown effect fires, a second after it was set
TimerTick ==
  \E i \in 1..Len(steps) :
    /\ view = "process"
    /\ isTimerRunning(steps[i])
    /\ timerSeconds(steps[i]) > 0
    /\ now - timerStates[steps[i].id].lastUpdated >= 2
    /\ updateTimerState(steps[i].id,
                        [remainingSeconds |-> timerSeconds(steps[i]) - 1])

\* the timer buttons show on the active card only (step.duration && isActive),
\* the play and pause button while timerSeconds > 0
toggleTimer ==
  \E i \in 1..Len(steps) :
    /\ view = "process"
    /\ i - 1 = currentStepIndex
    /\ currentStepIndex <= MaxTimerStep
    /\ HasDuration(steps[i])
    /\ timerSeconds(steps[i]) > 0
    /\ updateTimerState(steps[i].id, [isRunning |-> ~isTimerRunning(steps[i])])

resetTimer ==
  \E i \in 1..Len(steps) :
    /\ view = "process"
    /\ i - 1 = currentStepIndex
    /\ currentStepIndex <= MaxTimerStep
    /\ HasDuration(steps[i])
    /\ updateTimerState(steps[i].id,
         [remainingSeconds |-> steps[i].duration * 60, isRunning |-> FALSE])

\* wall-clock time passes
ClockTick ==
  \E d \in ClockSteps :
    /\ CanPass(d)
    /\ now' = now + d
    /\ UNCHANGED <<view, unit, inputs, output, steps, currentStepIndex,
                   bakeStartTime, timerStates, hasActiveBake>>

\* the calculator on its own: every control of the calculator view
NextCalculator ==
  \/ (\E v \in {"calculator", "process"} : setView(v)) /\ UNCHANGED call
  \/ (\E u \in Unit : setUnit(u)) /\ UNCHANGED call
  \/ SetMethod /\ UNCHANGED call
  \/ SetTotalFlour /\ UNCHANGED call
  \/ SetTargetHydration /\ UNCHANGED call
  \/ SetRoomTempDown /\ UNCHANGED call
  \/ SetRoomTempUp /\ UNCHANGED call
  \/ SetMixer /\ UNCHANGED call
  \/ SetFermentationSpeed /\ UNCHANGED call
  \/ SetPrefermentStorage /\ UNCHANGED call
  \/ CalculateRecipe /\ UNCHANGED call

SpecCalculator == Init /\ [][NextCalculator]_vars

\* the progress of a bake while the recipe changes: the controls that change
\* the list of steps (method, hydration, mixer) or the masses in its texts
\* (flour, storage), and the store's actions
Next ==
  \/ (\E v \in {"calculator", "process"} : setView(v)) /\ UNCHANGED call
  \/ SetMethod /\ UNCHANGED call
  \/ SetTotalFlour /\ UNCHANGED call
  \/ SetTargetHydration /\ UNCHANGED call
  \/ SetMixer /\ UNCHANGED call
  \/ SetPrefermentStorage /\ UNCHANGED call
  \/ CalculateRecipe /\ UNCHANGED call
  \/ startBake /\ UNCHANGED call
  \/ resumeBake /\ UNCHANGED call
  \/ completeStep /\ UNCHANGED call
  \/ resetBake /\ UNCHANGED call
  \/ pauseBake /\ UNCHANGED call

Spec == Init /\ [][Next]_vars

(***************************************************************************)
(* A bake of the default recipe with its timers and the wall clock. call   *)
(* holds the last action of the store and the state it was called in.      *)
(***************************************************************************)
Called(fn) == call' = [fn |-> fn, before |-> partialize, at |-> now]

NextTimers ==
  \/ (\E v \in {"calculator", "process"} : setView(v)) /\ Called("setView")
  \/ (\E u \in Unit : setUnit(u)) /\ Called("setUnit")
  \/ startBake /\ Called("startBake")
  \/ resumeBake /\ Called("resumeBake")
  \/ completeStep /\ Called("completeStep")
  \/ resetBake /\ Called("resetBake")
  \/ pauseBake /\ Called("pauseBake")
  \/ rehydrate /\ Called("rehydrate")
  \/ TimerTick /\ Called("TimerTick")
  \/ toggleTimer /\ Called("toggleTimer")
  \/ resetTimer /\ Called("resetTimer")
  \/ ClockTick /\ UNCHANGED call

SpecTimers == Init /\ [][NextTimers]_vars

(***************************************************************************)
(* The engine on its own: one call of a function of utils/breadMath.ts on  *)
(* arguments drawn from bounded sets, as the unit tests call it. call      *)
(* holds the function, its arguments and what it returned.                 *)
(***************************************************************************)
\* bounds of the arguments
EngineFlourStep == 245
MaxFlourK == 8
EngineHydrationStep == 25
MaxHydrationK == 4
EngineTempStep == 25
MaxTempK == 4
\* a fermentation speed below the slider's range
EngineSlowSpeed == 1
\* water temperature alone: room temperatures of -MaxTempArg..MaxTempArg half
\* degrees, hydrations up to MaxHydrationArg
MaxTempArg == 120
MaxHydrationArg == 200
\* bulk, proof and preferment times passed to the time calculators
MaxBulkArg == 300
TimeArgStep == 240
MaxTimeK == 3

\* yeast alone: every flour of the first MaxYeastFlourK grams above the
\* smallest documented batch, where a tenth of a gram is a tenth of the yeast
MaxYeastFlourK == 50

\* the preferment alone: every flour from 1 g to MaxPrefermentFlour grams
MaxPrefermentFlour == 120

\* bulk time alone: room temperatures from MaxBulkTempArg half degrees below
\* zero to four times as many above
MaxBulkTempArg == 30

EngineFlours == {EngineFlourStep * k : k \in 1..MaxFlourK}
EngineHydrations ==
  {HYDRATION_CONFIG.min, HYDRATION_BASELINE, HIGH_HYDRATION_THRESHOLD,
   HIGH_HYDRATION_THRESHOLD + 1, HYDRATION_CONFIG.max}
    \cup {EngineHydrationStep * k : k \in 1..MaxHydrationK}
EngineTemps ==
  {Deg(TEMP_CONFIG.min), Deg(TEMP_CONFIG.default), Deg(TARGET_DDT),
   Deg(TEMP_CONFIG.max)}
    \cup {EngineTempStep * k : k \in 0..MaxTempK}
EngineSpeeds ==
  {EngineSlowSpeed, SPEED_CONFIG.min, SPEED_CONFIG.default, SPEED_CONFIG.max}

RecipeInputs(flours, hydrations, temps, speeds) ==
  [method : Method, totalFlour : flours, targetHydration : hydrations,
   mixer : MixerType, roomTemp : temps, fermentationSpeed : speeds,
   prefermentStorage : PrefermentStorage]

EngineInputs ==
  RecipeInputs(EngineFlours, EngineHydrations, EngineTemps, EngineSpeeds)

WaterTempInputs ==
  RecipeInputs({FLOUR_CONFIG.default},
               {0, HIGH_HYDRATION_THRESHOLD, HIGH_HYDRATION_THRESHOLD + 1,
                MaxHydrationArg},
               (0 - MaxTempArg)..MaxTempArg,
               {SPEED_CONFIG.default})

TimeArgs == {TimeArgStep * k : k \in 0..MaxTimeK}

\* the documented ranges of the inputs (the slider and stepper configurations)
InDocumentedRanges(in) ==
  /\ in.totalFlour >= FLOUR_CONFIG.min /\ in.totalFlour <= FLOUR_CONFIG.max
  /\ in.targetHydration >= HYDRATION_CONFIG.min
  /\ in.targetHydration <= HYDRATION_CONFIG.max
  /\ in.fermentationSpeed >= SPEED_CONFIG.min
  /\ in.fermentationSpeed <= SPEED_CONFIG.max
  /\ in.roomTemp >= Deg(TEMP_CONFIG.min) /\ in.roomTemp <= Deg(TEMP_CONFIG.max)

InitEngine == Init

CallCalculateRecipe ==
  /\ call.fn = "idle"
  /\ \E in \in EngineInputs :
       call' = [fn |-> "calculateRecipe", inputs |-> in,
                output |-> calculateRecipe(in)]
  /\ UNCHANGED storeVars

\* const steps = generateSteps(inputs, output), on the output of the call before
CallGenerateSteps ==
  /\ call.fn = "calculateRecipe"
  /\ call' = [fn |-> "generateSteps", inputs |-> call.inputs,
              output |-> call.output,
              steps |-> generateSteps(call.inputs, call.output)]
  /\ UNCHANGED storeVars

\* a second calculateRecipe(inputs) on the inputs of the call before
CallCalculateRecipeAgain ==
  /\ call.fn = "calculateRecipe"
  /\ call' = [fn |-> "calculateRecipeAgain", inputs |-> call.inputs,
              output |-> call.output, again |-> calculateRecipe(call.inputs)]
  /\ UNCHANGED storeVars

\* a second generateSteps(inputs, output) on the arguments of the call before
CallGenerateStepsAgain ==
  /\ call.fn = "generateSteps"
  /\ call' = [fn |-> "generateStepsAgain", inputs |-> call.inputs,
              output |-> call.output, steps |-> call.steps,
              again |-> generateSteps(call.inputs, call.output)]
  /\ UNCHANGED storeVars

CallCalculateHydrationFactor ==
  /\ call.fn = "idle"
  /\ \E hydration \in 0..MaxHydrationArg :
       call' = [fn |-> "calculateHydrationFactor", hydration |-> hydration,
                result |-> calculateHydrationFactor(hydration)]
  /\ UNCHANGED storeVars

YeastFlours ==
  {FLOUR_CONFIG.min + k : k \in 0..MaxYeastFlourK}
    \cup {FLOUR_CONFIG.default, FLOUR_CONFIG.max}

\* the speeds 0.5, 1.0, 1.5 and 2.0
YeastSpeeds == {v \in SPEED_CONFIG.min..SPEED_CONFIG.max : v % 5 = 0}

YeastHydrations ==
  {HYDRATION_CONFIG.default, HIGH_HYDRATION_THRESHOLD,
   HIGH_HYDRATION_THRESHOLD + 1, 80}

CallCalculateYeast ==
  /\ call.fn = "idle"
  /\ \E totalFlour \in YeastFlours, fermentationSpeed \in YeastSpeeds,
        hydration \in YeastHydrations :
       call' = [fn |-> "calculateYeast", totalFlour |-> totalFlour,
                fermentationSpeed |-> fermentationSpeed, hydration |-> hydration,
                result |-> calculateYeast(totalFlour, fermentationSpeed, hydration)]
  /\ UNCHANGED storeVars

PrefermentFlours == 1..MaxPrefermentFlour \cup {3 * FLOUR_CONFIG.min}

CallCalculatePreferment ==
  /\ call.fn = "idle"
  /\ \E method \in Method, totalFlour \in PrefermentFlours :
       call' = [fn |-> "calculatePreferment", method |-> method,
                totalFlour |-> totalFlour,
                result |-> calculatePreferment(method, totalFlour)]
  /\ UNCHANGED storeVars

BulkTemps == (0 - MaxBulkTempArg)..(4 * MaxBulkTempArg)

BulkSpeeds == {EngineSlowSpeed} \cup SPEED_CONFIG.min..SPEED_CONFIG.max

CallCalculateBulkTime ==
  /\ call.fn = "idle"
  /\ \E roomTemp \in BulkTemps, fermentationSpeed \in BulkSpeeds,
        hydration \in EngineHydrations :
       call' = [fn |-> "calculateBulkTime", roomTemp |-> roomTemp,
                fermentationSpeed |-> fermentationSpeed, hydration |-> hydration,
                result |-> calculateBulkTime(roomTemp, fermentationSpeed, hydration)]
  /\ UNCHANGED storeVars

CallCalculatePrefermentTime ==
  /\ call.fn = "idle"
  /\ \E method \in Method \ {"DIRECT"}, roomTemp \in BulkTemps,
        prefermentStorage \in PrefermentStorage :
       call' = [fn |-> "calculatePrefermentTime", method |-> method,
                roomTemp |-> roomTemp, prefermentStorage |-> prefermentStorage,
                result |-> calculatePrefermentTime(method, roomTemp,
                                                   prefermentStorage)]
  /\ UNCHANGED storeVars

CallCalculateWaterTemp ==
  /\ call.fn = "idle"
  /\ \E in \in WaterTempInputs :
       call' = [fn |-> "calculateWaterTemp", inputs |-> in,
                result |-> calculateWaterTemp(in)]
  /\ UNCHANGED storeVars

CallCalculateProofTime ==
  /\ call.fn = "idle"
  /\ \E bulkTime \in 0..MaxBulkArg \cup {MaxBulkArg * MaxBulkArg} :
       call' = [fn |-> "calculateProofTime", bulkTime |-> bulkTime,
                result |-> calculateProofTime(bulkTime)]
  /\ UNCHANGED storeVars

CallCalculateTotalTime ==
  /\ call.fn = "idle"
  /\ \E bulkTime \in TimeArgs, proofTime \in TimeArgs, prefermentTime \in TimeArgs,
        mixer \in MixerType, highHydration \in BOOLEAN, indirect \in BOOLEAN :
       call' = [fn |-> "calculateTotalTime", bulkTime |-> bulkTime,
                proofTime |-> proofTime, prefermentTime |-> prefermentTime,
                mixer |-> mixer, isHighHydration |-> highHydration,
                isIndirect |-> indirect,
                result |-> calculateTotalTime(bulkTime, proofTime, prefermentTime,
                                              mixer, highHydration, indirect)]
  /\ UNCHANGED storeVars

NextEngine ==
  \/ CallCalculateRecipe
  \/ CallGenerateSteps
  \/ CallCalculateRecipeAgain
  \/ CallGenerateStepsAgain
  \/ CallCalculateHydrationFactor
  \/ CallCalculateYeast
  \/ CallCalculatePreferment
  \/ CallCalculateBulkTime
  \/ CallCalculatePrefermentTime
  \/ CallCalculateWaterTemp
  \/ CallCalculateProofTime
  \/ CallCalculateTotalTime

SpecEngine == InitEngine /\ [][NextEngine]_vars

(***************************************************************************)
(* Properties of the engine, checked under SpecEngine                      *)
(***************************************************************************)
PrefermentFlour(o) == IF o.preferment # undefined THEN o.preferment.flour ELSE 0
PrefermentWater(o) == IF o.preferment # undefined THEN o.preferment.water ELSE 0

\* C1: mass conservation in calculateRecipe. For every method and input the
\* final dough's flour plus the preferment's flour is exactly flourTotal, the
\* final dough's water plus the preferment's water is within 1 g of waterTotal,
\* and the final dough's yeast is max(0, yeast - preferment.yeast) (to 0.1 g)
\* when there is a preferment, and the total yeast for DIRECT.
C1_MassConservation ==
  call.fn = "calculateRecipe" =>
    LET in == call.inputs
        o == call.output
    IN  /\ o.flourTotal = in.totalFlour
        /\ o.finalDough.flour + PrefermentFlour(o) = o.flourTotal
        /\ Abs(o.finalDough.water + PrefermentWater(o) - o.waterTotal) <= 1
        /\ IF o.preferment # undefined
           THEN o.finalDough.yeast = Max(0, o.yeast - o.preferment.yeast)
           ELSE in.method = "DIRECT" /\ o.finalDough.yeast = o.yeast

\* a recipe with a preferment that holds more yeast than the whole batch asks
\* for, so that the final dough's yeast is floored at 0
C1_Witness ==
  /\ call.fn = "calculateRecipe"
  /\ call.output.preferment # undefined
  /\ call.output.preferment.flour > 0
  /\ call.output.preferment.water > 0
  /\ call.output.yeast < call.output.preferment.yeast
  /\ call.output.finalDough.yeast = 0

\* C2: within the documented ranges calculateRecipe returns a preferment iff
\* the method is not DIRECT, and prefermentTime is 0 iff the method is DIRECT
\* (positive for BIGA and POOLISH): exactly one of "preferment present" and
\* "prefermentTime = 0" holds.
C2_PrefermentIffIndirect ==
  (call.fn = "calculateRecipe" /\ InDocumentedRanges(call.inputs)) =>
    LET in == call.inputs
        o == call.output
    IN  /\ (o.preferment # undefined) <=> (in.method # "DIRECT")
        /\ (o.prefermentTime = 0) <=> (in.method = "DIRECT")
        /\ in.method # "DIRECT" => o.prefermentTime > 0
        /\ (o.preferment # undefined) # (o.prefermentTime = 0)

\* the indirect recipe with the shortest preferment time of the documented
\* ranges: BIGA at room storage in the warmest room
C2_Witness ==
  /\ call.fn = "calculateRecipe"
  /\ InDocumentedRanges(call.inputs)
  /\ call.inputs.method = "BIGA"
  /\ call.inputs.prefermentStorage = "ROOM"
  /\ call.inputs.roomTemp = Deg(TEMP_CONFIG.max)
  /\ call.output.preferment # undefined
  /\ call.output.prefermentTime > 0

\* C3: calculateWaterTemp returns a whole number of degrees in [0, 40] for
\* every input, however extreme roomTemp and targetHydration are, for every
\* method, mixer and storage.
C3_WaterTempClamped ==
  call.fn = "calculateWaterTemp" =>
    call.result \in {Deg(d) : d \in 0..40}

\* a room warm enough, and one cold enough, for the clamp to act, at a
\* room temperature that is not a whole degree
C3_Witness ==
  /\ call.fn = "calculateWaterTemp"
  /\ call.inputs.roomTemp < Deg(0 - 40)
  /\ call.inputs.roomTemp % Deg(1) # 0
  /\ call.inputs.targetHydration > HYDRATION_CONFIG.max
  /\ call.result = Deg(40)

\* C4: calculateWaterTemp is clamp(round(x), 0, 40), with x = 72 - 2 roomTemp
\* - friction for DIRECT and x = 96 - 2 roomTemp - friction - prefermentTemp
\* for BIGA and POOLISH, prefermentTemp 4 for FRIDGE and roomTemp otherwise,
\* friction 2 (HAND) or 12 (KITCHENAID), less 2 (not below 0) only when the
\* hydration is strictly above 75. Rounding first and clamping second gives
\* what the code's clamping first and rounding second gives.
C4_WaterTempFormula ==
  call.fn = "calculateWaterTemp" =>
    LET in == call.inputs
        base == IF in.mixer = "HAND" THEN 2 ELSE 12
        friction == IF in.targetHydration > 75 THEN Max(0, base - 2) ELSE base
        prefermentTemp ==
          IF in.prefermentStorage = "FRIDGE" THEN Deg(4) ELSE in.roomTemp
        \* x in half degrees
        x == IF in.method = "DIRECT"
             THEN Deg(72) - 2 * in.roomTemp - Deg(friction)
             ELSE Deg(96) - 2 * in.roomTemp - Deg(friction) - prefermentTemp
    IN  call.result = Deg(Max(0, Min(40, RoundDiv(x, Deg(1)))))

\* x ends on a half degree inside the clamp, at a hydration of exactly 75,
\* where the friction is not reduced
C4_Witness ==
  /\ call.fn = "calculateWaterTemp"
  /\ call.inputs.method = "POOLISH"
  /\ call.inputs.prefermentStorage = "ROOM"
  /\ call.inputs.mixer = "KITCHENAID"
  /\ call.inputs.targetHydration = 75
  /\ call.inputs.roomTemp % Deg(1) # 0
  /\ call.result > 0
  /\ call.result < Deg(40)

\* the same inputs in a warmer room
WarmerRooms(in) ==
  {[in EXCEPT !.roomTemp = r] :
     r \in (in.roomTemp + 1)..Deg(TEMP_CONFIG.max)}

\* C5 as stated: within the documented ranges calculateWaterTemp strictly
\* decreases as roomTemp increases, all other inputs fixed, for DIRECT and for
\* the indirect methods.
C5_StrictlyDecreasing ==
  (call.fn = "calculateWaterTemp" /\ InDocumentedRanges(call.inputs)) =>
    \A warmer \in WarmerRooms(call.inputs) :
      calculateWaterTemp(warmer) < call.result

\* C5: within the documented ranges calculateWaterTemp never increases when
\* roomTemp rises by half a degree or more, all other inputs fixed, and it
\* strictly decreases unless the clamp saturates: both values are 40, or both
\* are 0. This holds for DIRECT and for the indirect methods.
C5_DecreasingUnlessClamped ==
  (call.fn = "calculateWaterTemp" /\ InDocumentedRanges(call.inputs)) =>
    \A warmer \in WarmerRooms(call.inputs) :
      LET w == calculateWaterTemp(warmer)
      IN  /\ w <= call.result
          /\ \/ w < call.result
             \/ w = Deg(40) /\ call.result = Deg(40)
             \/ w = 0 /\ call.result = 0

\* an indirect recipe in the coldest documented room whose water is capped at
\* 40, stays capped one degree warmer, falls below the cap further up and
\* reaches 0 in the warmest documented room
C5_Witness ==
  /\ call.fn = "calculateWaterTemp"
  /\ InDocumentedRanges(call.inputs)
  /\ call.inputs.method # "DIRECT"
  /\ call.inputs.roomTemp = Deg(TEMP_CONFIG.min)
  /\ call.result = Deg(40)
  /\ calculateWaterTemp([call.inputs EXCEPT !.roomTemp = Deg(TEMP_CONFIG.min + 1)])
       = Deg(40)
  /\ \E warmer \in WarmerRooms(call.inputs) :
       /\ calculateWaterTemp(warmer) < Deg(40)
       /\ calculateWaterTemp(warmer) > 0
  /\ calculateWaterTemp([call.inputs EXCEPT !.roomTemp = Deg(TEMP_CONFIG.max)]) = 0

\* C6: calculateTotalTime returns exactly (prefermentTime if indirect, else 0)
\* + (45 if high hydration, else 0) + (15 for HAND, 12 for KITCHENAID)
\* + bulkTime + 20 + 5 + proofTime + 22 + 22 + 60. The 45 minutes of oven
\* preheat are never added, a prefermentTime argument is ignored when the
\* indirect flag is false, and switching HAND to KITCHENAID lowers the total
\* by exactly 3.
C6_TotalTimeSum ==
  call.fn = "calculateTotalTime" =>
    LET c == call
        sum == (IF c.isIndirect THEN c.prefermentTime ELSE 0)
               + (IF c.isHighHydration THEN 45 ELSE 0)
               + (IF c.mixer = "HAND" THEN 15 ELSE 12)
               + c.bulkTime + 20 + 5 + c.proofTime + 22 + 22 + 60
    IN  /\ c.result = sum
        /\ ~c.isIndirect =>
             c.result = calculateTotalTime(c.bulkTime, c.proofTime, 0, c.mixer,
                                           c.isHighHydration, FALSE)
        /\ calculateTotalTime(c.bulkTime, c.proofTime, c.prefermentTime, "KITCHENAID",
                              c.isHighHydration, c.isIndirect)
             = calculateTotalTime(c.bulkTime, c.proofTime, c.prefermentTime, "HAND",
                                  c.isHighHydration, c.isIndirect) - 3

\* a direct, high-hydration, hand-mixed bake called with a preferment time
\* that must not count
C6_Witness ==
  /\ call.fn = "calculateTotalTime"
  /\ ~call.isIndirect
  /\ call.prefermentTime > 0
  /\ call.isHighHydration
  /\ call.mixer = "HAND"
  /\ call.bulkTime > 0
  /\ call.proofTime > 0
  /\ call.result = call.bulkTime + call.proofTime + 189

\* C7: calculateProofTime(bulk) is round(bulk * 0.5) clamped into [30, 120],
\* so the result is a whole number of minutes in [30, 120] for every bulk
\* time, 0 and very large bulk times included.
C7_ProofTimeClamped ==
  call.fn = "calculateProofTime" =>
    /\ call.result = Max(30, Min(120, (call.bulkTime + 1) \div 2))
    /\ call.result \in 30..120

\* a bulk time far beyond any the engine computes, held at the upper bound
C7_Witness ==
  /\ call.fn = "calculateProofTime"
  /\ call.bulkTime > MaxBulkArg
  /\ call.result = 120

\* the titles of the steps that belong to the mixing and bulk templates, in
\* the order of the list
HighHydrationTitles ==
  <<"Autolyse", "Add Salt & Yeast", "Bassinage", "Begin Bulk Fermentation",
    "Coil Fold 1", "Coil Fold 2", "Coil Fold 3", "Coil Fold 4",
    "Complete Bulk Fermentation">>

StandardTitles(in) ==
  <<IF in.method # "DIRECT" THEN "Combine Final Dough" ELSE "Mix Ingredients",
    IF in.mixer = "KITCHENAID" THEN "Machine Knead" ELSE "Hand Knead",
    "Bulk Fermentation", "Stretch & Fold (Optional)">>

TemplateTitles ==
  {HighHydrationTitles[i] : i \in 1..9}
    \cup {"Combine Final Dough", "Mix Ingredients", "Machine Knead",
          "Hand Knead", "Bulk Fermentation", "Stretch & Fold (Optional)"}

IsTemplateStep(step) == step.title \in TemplateTitles

TemplateSteps(ss) == SelectSeq(ss, IsTemplateStep)

TitlesOf(ss) == [i \in 1..Len(ss) |-> ss[i].title]

HasNoDuration(step) == "duration" \notin DOMAIN step

DurationIs(step, d) == "duration" \in DOMAIN step /\ step.duration = d

\* C8: generateSteps chooses the mixing and bulk template by hydration alone.
\* Above 75 the list holds, in this order, Autolyse (45 min), Add Salt &
\* Yeast, Bassinage, Begin Bulk Fermentation, exactly Coil Fold 1 to Coil
\* Fold 4, each lasting round(estimatedBulkTime / 5), and Complete Bulk
\* Fermentation, and neither a knead step nor a single Bulk Fermentation
\* step. At 75 or below it holds instead one mix step (Combine Final Dough
\* if indirect, Mix Ingredients if direct), one knead step (Machine Knead,
\* 12 min, for KITCHENAID; Hand Knead, 15 min, for HAND), one Bulk
\* Fermentation step lasting estimatedBulkTime and Stretch & Fold (Optional)
\* without a duration, and none of the high-hydration steps.
C8_TemplateByHydration ==
  call.fn = "generateSteps" =>
    LET in == call.inputs
        bulk == call.output.estimatedBulkTime
        t == TemplateSteps(call.steps)
    IN  IF in.targetHydration > 75
        THEN /\ TitlesOf(t) = HighHydrationTitles
             /\ DurationIs(t[1], 45)
             /\ \A i \in 5..8 : DurationIs(t[i], (2 * bulk + 5) \div 10)
        ELSE /\ TitlesOf(t) = StandardTitles(in)
             /\ DurationIs(t[2], IF in.mixer = "KITCHENAID" THEN 12 ELSE 15)
             /\ DurationIs(t[3], bulk)
             /\ HasNoDuration(t[4])

\* a dough just above the threshold, with a bulk time that five does not
\* divide, so that the coil folds last a rounded fifth of it
C8_Witness ==
  /\ call.fn = "generateSteps"
  /\ call.inputs.targetHydration = HIGH_HYDRATION_THRESHOLD + 1
  /\ call.output.estimatedBulkTime % 5 \in {3, 4}
  /\ \E i \in 1..Len(call.steps) :
       /\ call.steps[i].title = "Coil Fold 4"
       /\ call.steps[i].duration * 5 > call.output.estimatedBulkTime

\* the last n steps of a list
LastSteps(ss, n) == SubSeq(ss, Len(ss) - n + 1, Len(ss))

\* C9: for every input the last eight steps of generateSteps are, in order,
\* Pre-shape (20 min, not critical), Final Shape (no duration, critical),
\* Final Proof (lasting estimatedProofTime), Preheat Oven (45 min, critical),
\* Score & Load (no duration, critical), Bake (Covered) (22 min), Bake
\* (Uncovered) (22 min) and Cool (60 min, critical), whatever the method, the
\* hydration and the mixer.
C9_LastEightSteps ==
  call.fn = "generateSteps" =>
    /\ Len(call.steps) >= 8
    /\ LET l == LastSteps(call.steps, 8)
       IN  /\ TitlesOf(l) = <<"Pre-shape", "Final Shape", "Final Proof",
                              "Preheat Oven", "Score & Load", "Bake (Covered)",
                              "Bake (Uncovered)", "Cool">>
           /\ DurationIs(l[1], 20) /\ ~l[1].critical
           /\ HasNoDuration(l[2]) /\ l[2].critical
           /\ DurationIs(l[3], call.output.estimatedProofTime)
           /\ DurationIs(l[4], 45) /\ l[4].critical
           /\ HasNoDuration(l[5]) /\ l[5].critical
           /\ DurationIs(l[6], 22)
           /\ DurationIs(l[7], 22)
           /\ DurationIs(l[8], 60) /\ l[8].critical

\* the longest list, an indirect high-hydration recipe, whose final proof is
\* neither of the two bounds of the proof time
C9_Witness ==
  /\ call.fn = "generateSteps"
  /\ call.inputs.method = "BIGA"
  /\ call.inputs.targetHydration > HIGH_HYDRATION_THRESHOLD
  /\ Len(call.steps) = 18
  /\ call.steps[13].title = "Final Proof"
  /\ call.steps[13].duration > MIN_PROOF_TIME
  /\ call.steps[13].duration < MAX_PROOF_TIME

\* the preparation step of a method
IsPrepStepOf(step, method) ==
  /\ step.category = "prep"
  /\ step.critical
  /\ step.title = (IF method = "BIGA" THEN "Prepare Biga" ELSE "Prepare Poolish")

\* C10: for every inputs and output = calculateRecipe(inputs), the list of
\* generateSteps(inputs, output) starts with a critical step of category prep,
\* titled Prepare Biga or Prepare Poolish after the method, iff the method is
\* not DIRECT; for DIRECT no step of the list has category prep.
C10_PrepStepIffIndirect ==
  call.fn = "generateSteps" =>
    LET in == call.inputs
        ss == call.steps
    IN  /\ call.output = calculateRecipe(in)
        /\ Len(ss) > 0
        /\ IsPrepStepOf(ss[1], in.method) <=> in.method # "DIRECT"
        /\ in.method = "DIRECT" =>
             \A i \in 1..Len(ss) : ss[i].category # "prep"

\* a poolish recipe, whose list opens with the poolish's preparation
C10_Witness ==
  /\ call.fn = "generateSteps"
  /\ call.inputs.method = "POOLISH"
  /\ call.steps[1].title = "Prepare Poolish"
  /\ call.steps[1].category = "prep"
  /\ call.steps[2].category = "mix"

TimesNonNegative(o) ==
  /\ o.estimatedBulkTime \in Nat
  /\ o.estimatedProofTime \in Nat
  /\ o.prefermentTime \in Nat
  /\ o.totalTime \in Nat

\* no mass of a recipe is negative: totals, preferment, final dough
MassesNonNegative(o) ==
  /\ o.flourTotal >= 0 /\ o.waterTotal >= 0 /\ o.salt >= 0 /\ o.yeast >= 0
  /\ o.preferment # undefined =>
       /\ o.preferment.flour >= 0
       /\ o.preferment.water >= 0
       /\ o.preferment.yeast >= 0
  /\ o.finalDough.flour >= 0 /\ o.finalDough.water >= 0
  /\ o.finalDough.salt >= 0 /\ o.finalDough.yeast >= 0

\* C12: for every RecipeInputs within the documented ranges (totalFlour
\* 100..2000, targetHydration 60..90, fermentationSpeed 0.5..2.0, roomTemp
\* 15..35) every time field of the output is a non-negative whole number and
\* every mass (totals, preferment, final dough) is non-negative.
C12_NonNegativeInRange ==
  (call.fn = "calculateRecipe" /\ InDocumentedRanges(call.inputs)) =>
    /\ TimesNonNegative(call.output)
    /\ MassesNonNegative(call.output)

\* the documented recipe that leaves the least water to the final dough: a
\* poolish at the lowest hydration
C12_Witness ==
  /\ call.fn = "calculateRecipe"
  /\ InDocumentedRanges(call.inputs)
  /\ call.inputs.method = "POOLISH"
  /\ call.inputs.targetHydration = HYDRATION_CONFIG.min
  /\ call.output.preferment.water * 2 >= call.output.waterTotal - 1
  /\ call.output.finalDough.water > 0

\* C13 as stated: for any RecipeInputs with positive totalFlour and positive
\* fermentationSpeed, targetHydration and roomTemp outside their documented
\* ranges included, calculateRecipe produces no negative mass (finalDough.water
\* included) and no negative duration.
C13_NeverNegative ==
  (/\ call.fn = "calculateRecipe"
   /\ call.inputs.totalFlour > 0
   /\ call.inputs.fermentationSpeed > 0) =>
    /\ TimesNonNegative(call.output)
    /\ MassesNonNegative(call.output)

\* C14 as stated: calculateHydrationFactor(65) is 1; the factor strictly
\* decreases in hydration for every hydration above 65; below 65 it is
\* strictly greater than 1 and strictly grows as hydration falls; it always
\* lies in [0.70, 1.15].
C14_StrictlyMonotone ==
  call.fn = "calculateHydrationFactor" =>
    LET h == call.hydration
    IN  /\ h = 65 => call.result = 1000
        /\ h >= 65 => calculateHydrationFactor(h + 1) < call.result
        /\ h < 65 => call.result > 1000
        /\ (h <= 65 /\ h > 0) => calculateHydrationFactor(h - 1) > call.result
        /\ call.result \in 700..1150

\* C14: calculateHydrationFactor(65) is 1 and the factor never increases as
\* hydration rises. From 65 up it strictly decreases until hydration 85 and
\* is 0.70 from 85 upward; below 65 it is strictly greater than 1, strictly
\* grows as hydration falls to 50 and is 1.15 from 50 downward. It always
\* lies in [0.70, 1.15].
C14_MonotoneUntilCapped ==
  call.fn = "calculateHydrationFactor" =>
    LET h == call.hydration
        f(x) == calculateHydrationFactor(x)
    IN  /\ h = 65 => call.result = 1000
        /\ h < 65 => call.result > 1000
        /\ h >= 85 => call.result = 700
        /\ h <= 50 => call.result = 1150
        /\ call.result \in 700..1150
        /\ \A h2 \in 0..MaxHydrationArg :
             h2 > h =>
               /\ f(h2) <= call.result
               /\ (h >= 65 /\ h < 85) => f(h2) < call.result
               /\ (h2 <= 65 /\ h2 > 50) => f(h2) < call.result

\* a hydration of the documented range at which the factor has reached its
\* lower cap, as it had one percent below
C14_Witness ==
  /\ call.fn = "calculateHydrationFactor"
  /\ call.hydration > 85
  /\ call.hydration <= HYDRATION_CONFIG.max
  /\ call.result = 700
  /\ calculateHydrationFactor(call.hydration - 1) = 700
  /\ calculateHydrationFactor(84) > 700

\* C15 as stated: for every bulk time b with 60 <= b <= 120, where neither
\* calculateProofTime(b) nor calculateProofTime(2b) is clamped,
\* calculateProofTime(2b) = 2 * calculateProofTime(b).
C15_DoublingExact ==
  (call.fn = "calculateProofTime" /\ call.bulkTime \in 60..120) =>
    calculateProofTime(2 * call.bulkTime) = 2 * call.result

\* C15: for every bulk time b with 60 <= b <= 120, calculateProofTime(2b) is
\* 2 * calculateProofTime(b) when b is even and 2 * calculateProofTime(b) - 1
\* when b is odd, the half minute of b / 2 being rounded up.
C15_DoublingWithinRounding ==
  (call.fn = "calculateProofTime" /\ call.bulkTime \in 60..120) =>
    calculateProofTime(2 * call.bulkTime) =
      IF call.bulkTime % 2 = 0 THEN 2 * call.result ELSE 2 * call.result - 1

\* an odd bulk time inside the band, whose proof time was rounded up
C15_Witness ==
  /\ call.fn = "calculateProofTime"
  /\ call.bulkTime > 60
  /\ call.bulkTime < 120
  /\ call.bulkTime % 2 = 1
  /\ 2 * call.result = call.bulkTime + 1
  /\ calculateProofTime(2 * call.bulkTime) = call.bulkTime

\* yeast in tenths of a gram for a flour and a speed in tenths, with and
\* without the 10% reduction, spelled out from the documented numbers
YeastUnreduced(flour, speed) == (2 * flour * 15 * speed + 1000) \div 2000
YeastReduced(flour, speed) == (2 * flour * 15 * speed * 9 + 10000) \div 20000

\* C16 as stated: for every totalFlour and fermentationSpeed in the
\* documented ranges calculateYeast at hydration 80 is strictly less than at
\* hydration 70; the 10% reduction applies iff hydration > 75, and at exactly
\* 75 the result is the unreduced value.
C16_YeastStrictlyLess ==
  call.fn = "calculateYeast" =>
    LET f == call.totalFlour
        v == call.fermentationSpeed
    IN  /\ calculateYeast(f, v, 80) < calculateYeast(f, v, 70)
        /\ call.result = IF call.hydration > 75 THEN YeastReduced(f, v)
                         ELSE YeastUnreduced(f, v)

\* C16: for every totalFlour and fermentationSpeed in the documented ranges
\* calculateYeast at hydration 80 is never more than at hydration 70, and it
\* is strictly less whenever the yeast at hydration 70 is at least 1.0 g; the
\* 10% reduction applies iff hydration > 75, and at exactly 75 the result is
\* the unreduced value.
C16_YeastLessFromOneGram ==
  call.fn = "calculateYeast" =>
    LET f == call.totalFlour
        v == call.fermentationSpeed
        y70 == calculateYeast(f, v, 70)
        y80 == calculateYeast(f, v, 80)
    IN  /\ y80 <= y70
        /\ y70 >= 10 => y80 < y70
        /\ call.result = IF call.hydration > 75 THEN YeastReduced(f, v)
                         ELSE YeastUnreduced(f, v)
        /\ calculateYeast(f, v, 75) = y70

\* a small, slow batch whose yeast is 0.8 g at hydration 70 and, after the
\* reduction and the rounding to a tenth of a gram, 0.8 g at hydration 80
C16_Witness ==
  /\ call.fn = "calculateYeast"
  /\ call.fermentationSpeed = SPEED_CONFIG.min
  /\ call.hydration = 80
  /\ call.result = 8
  /\ calculateYeast(call.totalFlour, call.fermentationSpeed, 70) = 8

\* C17 as stated: preferment flour scales linearly with total flour: for BIGA
\* and POOLISH and every total flour F, calculatePreferment(method, 3F).flour
\* is 3 * calculatePreferment(method, F).flour, preferment flour being
\* round(0.30 * F).
C17_FlourLinear ==
  (call.fn = "calculatePreferment" /\ call.method # "DIRECT") =>
    /\ call.result.flour = (2 * 3 * call.totalFlour + 10) \div 20
    /\ calculatePreferment(call.method, 3 * call.totalFlour).flour
         = 3 * call.result.flour

\* C17: preferment flour is round(0.30 * F) for BIGA and POOLISH. For every
\* total flour F that is a multiple of 10 g, calculatePreferment(method,
\* 3F).flour is 3 * calculatePreferment(method, F).flour; for every other F
\* the two differ by at most 1 g.
C17_FlourLinearOnTens ==
  (call.fn = "calculatePreferment" /\ call.method # "DIRECT") =>
    LET tripled == calculatePreferment(call.method, 3 * call.totalFlour).flour
    IN  /\ call.result.flour = (2 * 3 * call.totalFlour + 10) \div 20
        /\ call.totalFlour % 10 = 0 => tripled = 3 * call.result.flour
        /\ Abs(tripled - 3 * call.result.flour) <= 1

\* a batch whose preferment flour was rounded up from a half gram, so that
\* three times it is a gram more than the preferment flour of the triple batch
C17_Witness ==
  /\ call.fn = "calculatePreferment"
  /\ call.method = "POOLISH"
  /\ call.totalFlour % 10 = 5
  /\ call.totalFlour >= FLOUR_CONFIG.min
  /\ calculatePreferment(call.method, 3 * call.totalFlour).flour
       = 3 * call.result.flour - 1

\* C18: calculateBulkTime(24, 1.0, 65) is 120, and for every room
\* temperature r, speed s and hydration h, calculateBulkTime(r - 8, s, h) is
\* within 1 minute of 2 * calculateBulkTime(r, s, h) (Q10 doubling per 8
\* degrees). No lower or upper clamp is applied: a bulk time of 2 minutes or
\* more is strictly longer in a room 8 degrees colder, so the result grows
\* without bound as the room gets colder.
C18_BulkTimeDoubles ==
  call.fn = "calculateBulkTime" =>
    LET colder == calculateBulkTime(call.roomTemp - Deg(8),
                                    call.fermentationSpeed, call.hydration)
    IN  /\ (/\ call.roomTemp = Deg(24)
            /\ call.fermentationSpeed = 10
            /\ call.hydration = 65) => call.result = 120
        /\ Abs(colder - 2 * call.result) <= 1
        /\ call.result >= 2 => colder > call.result

\* a freezing room and a slow dough: a bulk time of more than a week, and
\* about twice that 8 degrees colder
C18_Witness ==
  /\ call.fn = "calculateBulkTime"
  /\ call.roomTemp < Deg(0)
  /\ call.fermentationSpeed < SPEED_CONFIG.min
  /\ call.result > 7 * 24 * 60
  /\ calculateBulkTime(call.roomTemp - Deg(8), call.fermentationSpeed,
                       call.hydration) > 14 * 24 * 60

\* C19: with FRIDGE storage calculatePrefermentTime never exceeds 960 minutes
\* for BIGA and 1440 minutes for POOLISH, for every roomTemp; with ROOM
\* storage at 24 degrees it returns 480 for BIGA and 720 for POOLISH, 1.5
\* times BIGA.
C19_FridgeCapAndBase ==
  call.fn = "calculatePrefermentTime" =>
    /\ call.prefermentStorage = "FRIDGE" =>
         call.result <= (IF call.method = "BIGA" THEN 960 ELSE 1440)
    /\ (call.prefermentStorage = "ROOM" /\ call.roomTemp = Deg(24)) =>
         /\ call.result = (IF call.method = "BIGA" THEN 480 ELSE 720)
         /\ 2 * calculatePrefermentTime("POOLISH", Deg(24), "ROOM")
              = 3 * calculatePrefermentTime("BIGA", Deg(24), "ROOM")

\* a poolish kept in the fridge while the room is below freezing: the fridge
\* value is the cap, which the room value of the same call exceeds
C19_Witness ==
  /\ call.fn = "calculatePrefermentTime"
  /\ call.method = "POOLISH"
  /\ call.prefermentStorage = "FRIDGE"
  /\ call.roomTemp < Deg(0)
  /\ call.result = 1440
  /\ calculatePrefermentTime("POOLISH", call.roomTemp, "ROOM") > 1440

\* the preferment time of the same method in the same room, the other way
\* stored
OtherStorage(storage) ==
  calculatePrefermentTime(call.method, call.roomTemp, storage)

StepCount(in) ==
  (IF isIndirect(in) THEN 1 ELSE 0) + (IF isHighHydration(in) THEN 17 ELSE 12)

\* C22: the ids of the steps returned by one generateSteps call are 'step-1',
\* 'step-2', ..., 'step-n' in list order: sequential, starting at 1, with no
\* gap and no duplicate, for every branch combination.
C22_SequentialIds ==
  call.fn = "generateSteps" =>
    /\ Len(call.steps) = StepCount(call.inputs)
    /\ \A i \in 1..Len(call.steps) : call.steps[i].id = "step-" \o ToString(i)
    /\ \A i, j \in 1..Len(call.steps) :
         call.steps[i].id = call.steps[j].id => i = j

\* the longest list: a poolish at high hydration, whose four coil folds come
\* out of the loop as steps 6 to 9
C22_Witness ==
  /\ call.fn = "generateSteps"
  /\ call.inputs.method = "POOLISH"
  /\ isHighHydration(call.inputs)
  /\ Len(call.steps) = 18
  /\ call.steps[6].title = "Coil Fold 1" /\ call.steps[6].id = "step-6"
  /\ call.steps[9].title = "Coil Fold 4" /\ call.steps[9].id = "step-9"
  /\ call.steps[18].id = "step-18"

(***************************************************************************)
(* Properties of the store                                                 *)
(***************************************************************************)
\* C23: after the store is initialised, in every state reached by any
\* sequence of setInputs, calculateRecipe, startBake, completeStep, pauseBake,
\* resumeBake and resetBake, store.output equals calculateRecipe(store.inputs)
\* and store.steps equals generateSteps(store.inputs, store.output): every
\* setInputs replaces output and steps wholesale.
C23_RecomputedFromInputs ==
  /\ output = calculateRecipe(inputs)
  /\ steps = generateSteps(inputs, output)
  /\ Len(steps) = StepCount(inputs)

\* a bake started on the default recipe, two steps done, then paused and the
\* recipe changed to a wet poolish: eighteen steps where there were twelve
C23_Witness ==
  /\ hasActiveBake
  /\ view = "calculator"
  /\ currentStepIndex = 2
  /\ DOMAIN timerStates = {"step-2", "step-3", "step-5", "step-7", "step-8", "step-10", "step-11", "step-12"}
  /\ inputs.method = "POOLISH"
  /\ isHighHydration(inputs)
  /\ output.preferment # undefined
  /\ Len(steps) = 18
  /\ steps[1].title = "Prepare Poolish"

\* the seconds between the last action of the store and now:
\* Math.floor((now - at) / 1000)
SecondsSince(at) == (now - at) \div 2

\* C24: a step timer that is running when the app is closed keeps counting
\* while it is closed: when the persisted state is loaded again after t
\* seconds of wall-clock time, the timer's remainingSeconds is the persisted
\* value minus t, floored at 0, without any further user action.
C24_TimerCountsWhileClosed ==
  call.fn = "rehydrate" =>
    \A id \in DOMAIN call.before.timerStates :
      call.before.timerStates[id].isRunning =>
        /\ id \in DOMAIN timerStates
        /\ timerStates[id].remainingSeconds =
             Max(0, call.before.timerStates[id].remainingSeconds
                      - SecondsSince(call.at))

\* C25: resumeBake sets, for every timer with isRunning true, remainingSeconds
\* to max(0, remainingSeconds - floor((now - lastUpdated) / 1000)) and
\* lastUpdated to now; it leaves every timer with isRunning false unchanged,
\* and leaves steps, currentStepIndex, inputs, output and hasActiveBake
\* unchanged while setting view to 'process'.
C25_ResumeBake ==
  call.fn = "resumeBake" =>
    /\ DOMAIN timerStates = DOMAIN call.before.timerStates
    /\ \A id \in DOMAIN call.before.timerStates :
         LET state == call.before.timerStates[id]
         IN  IF state.isRunning
             THEN timerStates[id] =
                    [stepId |-> state.stepId,
                     remainingSeconds |->
                       Max(0, state.remainingSeconds
                                - (call.at - state.lastUpdated) \div 2),
                     isRunning |-> TRUE,
                     lastUpdated |-> call.at]
             ELSE timerStates[id] = state
    /\ steps = call.before.steps
    /\ currentStepIndex = call.before.currentStepIndex
    /\ inputs = call.before.inputs
    /\ output = call.before.output
    /\ hasActiveBake = call.before.hasActiveBake
    /\ view = "process"

\* a bake resumed from the calculator more than a quarter of an hour after the
\* timer of its kneading step was started: the running timer is floored at 0,
\* the timers that were not running are as they were
C25_Witness ==
  /\ call.fn = "resumeBake"
  /\ call.before.view = "calculator"
  /\ "step-2" \in DOMAIN call.before.timerStates
  /\ call.before.timerStates["step-2"].isRunning
  /\ call.before.timerStates["step-2"].remainingSeconds = 15 * 60
  /\ call.at - call.before.timerStates["step-2"].lastUpdated > 2 * 15 * 60
  /\ timerStates["step-2"].remainingSeconds = 0
  /\ timerStates["step-2"].lastUpdated = now
  /\ ~call.before.timerStates["step-3"].isRunning
  /\ timerStates["step-3"] = call.before.timerStates["step-3"]
  /\ timerStates["step-3"].lastUpdated < now

\* the ids of the steps of the current list that have a duration
TimedStepIds == {steps[i].id : i \in {j \in 1..Len(steps) : HasDuration(steps[j])}}

\* C26: in every state reachable by any sequence of store actions (including
\* setInputs while a bake is active or paused), currentStepIndex is a valid
\* index into steps (0 <= currentStepIndex < steps.length) and every key of
\* timerStates is the id of a step of the current steps list that has a
\* duration.
C26_ProgressMatchesSteps ==
  /\ currentStepIndex >= 0
  /\ currentStepIndex < Len(steps)
  /\ DOMAIN timerStates \subseteq TimedStepIds

\* C27: after startBake, n = steps.length successive completeStep calls lead
\* to a state with hasActiveBake false and currentStepIndex >= steps.length,
\* the condition under which ProcessView shows the 'Bread Complete!' message;
\* each earlier completeStep raises currentStepIndex by exactly 1.
C27_BakeCompletes ==
  (call.fn = "completeStep" /\ call.before.hasActiveBake) =>
    IF call.before.currentStepIndex < Len(call.before.steps) - 1
    THEN /\ currentStepIndex = call.before.currentStepIndex + 1
         /\ hasActiveBake
    ELSE /\ ~hasActiveBake
         /\ currentStepIndex >= Len(steps)

\* the part of C27 the store keeps: every completeStep before the last raises
\* currentStepIndex by exactly 1, and the last one ends the bake
C27_StepsAdvance ==
  (call.fn = "completeStep" /\ call.before.hasActiveBake) =>
    IF call.before.currentStepIndex < Len(call.before.steps) - 1
    THEN /\ currentStepIndex = call.before.currentStepIndex + 1
         /\ hasActiveBake
    ELSE /\ ~hasActiveBake
         /\ currentStepIndex = Len(steps) - 1

\* the step of the current list with the given id
StepOf(id) == steps[CHOOSE i \in 1..Len(steps) : steps[i].id = id]

\* C28: startBake creates one timer for exactly the steps that have a
\* duration, each with remainingSeconds = duration * 60 and isRunning false;
\* in every state reached afterwards by any interleaving of the StepCard tick
\* (only fired while running and remaining > 0, writes remaining - 1), toggle,
\* reset (writes duration * 60, isRunning false) and resumeBake, every timer
\* satisfies 0 <= remainingSeconds <= duration * 60 of its step.
C28_TimerBounds ==
  /\ call.fn = "startBake" =>
       /\ DOMAIN timerStates = TimedStepIds
       /\ \A id \in DOMAIN timerStates :
            /\ timerStates[id].stepId = id
            /\ timerStates[id].remainingSeconds = StepOf(id).duration * 60
            /\ ~timerStates[id].isRunning
  /\ call.fn = "TimerTick" =>
       \E id \in DOMAIN timerStates :
         /\ call.before.timerStates[id].isRunning
         /\ call.before.timerStates[id].remainingSeconds > 0
         /\ timerStates[id].remainingSeconds =
              call.before.timerStates[id].remainingSeconds - 1
  /\ call.fn = "resetTimer" =>
       LET id == steps[currentStepIndex + 1].id
       IN  \/ id \notin DOMAIN call.before.timerStates
           \/ /\ timerStates[id].remainingSeconds = StepOf(id).duration * 60
              /\ ~timerStates[id].isRunning
  /\ \A id \in DOMAIN timerStates :
       /\ id \in TimedStepIds
       /\ timerStates[id].remainingSeconds >= 0
       /\ timerStates[id].remainingSeconds <= StepOf(id).duration * 60

\* the kneading timer a second after resumeBake left it at 0 and running: the
\* condition of the countdown effect is false
C28_Witness ==
  /\ hasActiveBake
  /\ view = "process"
  /\ "step-2" \in DOMAIN timerStates
  /\ timerStates["step-2"].isRunning
  /\ timerStates["step-2"].remainingSeconds = 0
  /\ now - timerStates["step-2"].lastUpdated >= 2

\* the step card that called updateTimerState is the active one
CallerStepId == call.before.steps[call.before.currentStepIndex + 1].id

\* C29: resetBake sets view to 'calculator', currentStepIndex to 0,
\* bakeStartTime to null, timerStates to empty and hasActiveBake to false, and
\* leaves inputs, output, steps and unit unchanged; pauseBake changes only view
\* (to 'calculator') and leaves currentStepIndex, timerStates, hasActiveBake
\* and bakeStartTime unchanged; updateTimerState for a step id with no
\* existing timer changes nothing.
C29_Frames ==
  /\ call.fn = "resetBake" =>
       /\ view = "calculator"
       /\ currentStepIndex = 0
       /\ bakeStartTime = null
       /\ timerStates = <<>>
       /\ ~hasActiveBake
       /\ inputs = call.before.inputs
       /\ output = call.before.output
       /\ steps = call.before.steps
       /\ unit = call.before.unit
  /\ call.fn = "pauseBake" =>
       /\ view = "calculator"
       /\ partialize = [call.before EXCEPT !.view = "calculator"]
  /\ (/\ call.fn \in {"toggleTimer", "resetTimer"}
      /\ CallerStepId \notin DOMAIN call.before.timerStates) =>
       /\ partialize = call.before

\* resetBake in the middle of a bake shown in ounces, with a timer running
C29_Witness ==
  /\ call.fn = "resetBake"
  /\ call.before.hasActiveBake
  /\ call.before.view = "process"
  /\ call.before.currentStepIndex = 1
  /\ call.before.bakeStartTime # null
  /\ call.before.timerStates["step-2"].isRunning
  /\ call.before.unit # "METRIC"
  /\ timerStates = <<>>
  /\ unit = call.before.unit

\* pauseBake in the middle of a bake, with a timer running
C29_WitnessPause ==
  /\ call.fn = "pauseBake"
  /\ call.before.hasActiveBake
  /\ call.before.view = "process"
  /\ call.before.currentStepIndex = 1
  /\ call.before.timerStates["step-2"].isRunning
  /\ view = "calculator"

\* the reset button of the kneading card pressed in the process view when no
\* bake was started: the store has no timer for it
C29_WitnessNoTimer ==
  /\ call.fn = "resetTimer"
  /\ CallerStepId = "step-2"
  /\ call.before.timerStates = <<>>
  /\ timerStates = <<>>

\* views/ProcessView.tsx: step.duration || 5
StepMinutes(step) == IF HasDuration(step) THEN step.duration ELSE 5

\* steps.slice(from).reduce((acc, step) => acc + (step.duration || 5), 0)
RECURSIVE remainingTime(_, _)
remainingTime(ss, from) ==
  IF from >= Len(ss) THEN 0
  ELSE StepMinutes(ss[from + 1]) + remainingTime(ss, from + 1)

NotPreheat(step) == step.title # "Preheat Oven"

\* C30: for every input, the time the consumer accumulates over the generated
\* steps at the start of a bake (each step's duration, or the 5-minute
\* fallback when it has none, leaving out the 45-minute 'Preheat Oven' step
\* that overlaps the proof) equals output.totalTime for the same inputs.
C30_ScheduleAgreement ==
  call.fn = "generateSteps" =>
    remainingTime(SelectSeq(call.steps, NotPreheat), 0) = call.output.totalTime

\* the same with the 'Preheat Oven' step counted, as ProcessView counts it
C30_ScheduleAgreementWithPreheat ==
  call.fn = "generateSteps" =>
    remainingTime(call.steps, 0) = call.output.totalTime

====
